---- MODULE Spec2Model ----
(***************************************************************************)
(* A model of httpeter's request router (src/src/index.ts): the service    *)
(* node tree, path splitting, the recursive resolver getQueryResult, the   *)
(* error normalizer getError, the dispatch pipeline handleRequest and the  *)
(* authenticate wrapper.                                                   *)
(*                                                                         *)
(* Strings are sequences of symbols.  A symbol is one character ("/", "?", *)
(* "a"), except "constructor", which abbreviates the eleven characters of  *)
(* that word (a property every JavaScript object inherits), and            *)
(* "onstructor", what substr(1) leaves of it.                              *)
(*                                                                         *)
(* JavaScript values are tagged records [t |-> <type>, ...].               *)
(***************************************************************************)
EXTENDS Integers, Sequences, FiniteSets, TLC

\* Longest request path, in symbols.
MaxPathLen == 4

----------------------------------------------------------------------------
\* JavaScript values.  Every string value is a sequence of string pieces.

Str(s) == <<s>>
EmptyStr == <<>>

JUndefined == [t |-> "undefined"]
JNull == [t |-> "null"]
JStr(s) == [t |-> "string", v |-> s]
JObj(fields) == [t |-> "object", f |-> fields]
EmptyObject == JObj(<<>>)

\* What every plain object inherits under the key "constructor": the function Object.
ObjectCtor == [t |-> "function", name |-> "Object"]

\* The keys a plain object ({} or an object literal) answers without owning them.
\* Object.prototype has more (toString, valueOf, ...); one stands for them.
ProtoVerbs == {"constructor"}
ProtoSegments == {<<"constructor">>}

\* new Error(message).message: String(message), the inherited "" for undefined.
ErrorMessage(message) == IF message = JUndefined THEN EmptyStr ELSE message.v

\* class HttpError: the body parameter defaults to null when it is undefined.
HttpError(statusCode, message, body) ==
  [t |-> "HttpError", statusCode |-> statusCode, message |-> ErrorMessage(message),
   body |-> IF body = JUndefined THEN JNull ELSE body]

\* new Error(text), also the TypeErrors the runtime raises.
Error(text) == [t |-> "Error", message |-> Str(text)]

\* e.message and e.body of a value that is neither null nor undefined.
MessageProp(e) == IF "message" \in DOMAIN e THEN JStr(e.message) ELSE JUndefined
BodyProp(e) == IF "body" \in DOMAIN e THEN e.body ELSE JUndefined

Nullish(v) == v = JUndefined \/ v = JNull

----------------------------------------------------------------------------
\* Requests, responses, nodes

Response(statusCode, headers, body) ==
  [statusCode |-> statusCode, headers |-> headers, body |-> body]

NoHeaders == <<>>

\* A handler written "async () => r": the promise it returns is already settled.
AsyncReturn(r) == [kind |-> "async", outcome |-> "return", value |-> r]
AsyncThrow(e) == [kind |-> "async", outcome |-> "throw", value |-> e]
\* A handler that is not an async function and throws before returning a promise.
SyncThrow(e) == [kind |-> "sync", outcome |-> "throw", value |-> e]

\* authenticate(handler): the wrapped handler h either returns a value or throws.
authenticate(h) == [kind |-> "authenticate", h |-> h]
HReturn(v) == [outcome |-> "return", value |-> v]
HThrow(e) == [outcome |-> "throw", value |-> e]

Child(key, node) == [key |-> key, node |-> node]
NoChildren == <<>>

httpNode(methods, children) == [methods |-> methods, children |-> children]

json(value, children) ==
  httpNode([GET |-> AsyncReturn(Response(200, NoHeaders, value))], children)

directory(children) ==
  httpNode([GET |-> AsyncReturn(Response(200, NoHeaders, JStr(Str("directory"))))], children)

httpPost(handler) == httpNode([POST |-> handler], NoChildren)
httpGet(handler) == httpNode([GET |-> handler], NoChildren)
httpPut(handler) == httpNode([PUT |-> handler], NoChildren)

----------------------------------------------------------------------------
\* Strings: indexOf, substr, split

RECURSIVE IndexFrom(_, _, _)
IndexFrom(str, c, i) ==
  IF i > Len(str) THEN -1
  ELSE IF str[i] = c THEN i - 1
  ELSE IndexFrom(str, c, i + 1)

\* str.indexOf(c): the 0-based position of the first c, or -1.
IndexOf(str, c) == IndexFrom(str, c, 1)

\* str.substr(0, k) and str.substr(k), for k a symbol boundary.
SubstrTo(str, k) == SubSeq(str, 1, k)
SubstrFrom(str, k) == SubSeq(str, k + 1, Len(str))

\* str.substr(1): the string without its first character.
DropFirstChar(str) ==
  IF str = <<>> THEN <<>>
  ELSE IF Head(str) = "constructor" THEN <<"onstructor">> \o Tail(str)
  ELSE Tail(str)

\* str.split(sep): at least one part, the empty string splits into [""].
RECURSIVE Split(_, _)
Split(str, sep) ==
  LET k == IndexOf(str, sep)
  IN IF k = -1 THEN <<str>>
     ELSE <<SubstrTo(str, k)>> \o Split(SubstrFrom(str, k + 1), sep)

\* readValues (index.ts 97-109): the pairs in order, a later key overriding.
RECURSIVE ReadPairs(_, _)
ReadPairs(parts, values) ==
  IF parts = <<>> THEN values
  ELSE LET keys == Split(Head(parts), "=")
           val == IF Len(keys) > 1 THEN JStr(keys[2]) ELSE JUndefined
       IN ReadPairs(Tail(parts),
                    [k \in DOMAIN values \cup {keys[1]} |->
                       IF k = keys[1] THEN val ELSE values[k]])

readValues(str) ==
  IF Len(str) = 0 THEN EmptyObject
  ELSE JObj(ReadPairs(Split(str, "&"), <<>>))

\* parsePath (index.ts 121-131)
parsePath(str) ==
  LET k == IndexOf(str, "?")
  IN IF k = -1 THEN [path |-> str, query |-> JNull]
     ELSE [path |-> SubstrTo(str, k), query |-> readValues(SubstrFrom(str, k + 1))]

\* readParts applied to what parsePath leaves: the query suffix stripped first.
readPartsOfPathOnly(path) ==
  IF Len(path) = 0 THEN <<>>
  ELSE Split(DropFirstChar(parsePath(path).path), "/")

\* readParts (index.ts 133-138)
readParts(path) ==
  IF Len(path) = 0 THEN <<>>
  ELSE Split(DropFirstChar(path), "/")

----------------------------------------------------------------------------
\* The resolver

Ok(v) == [ok |-> TRUE, value |-> v]
Throw(e) == [ok |-> FALSE, value |-> e]

\* Object.keys(children), in insertion order.
Keys(children) == [i \in 1..Len(children) |-> children[i].key]

\* The array's toString inside a template string: the keys joined by ",".
RECURSIVE JoinKeys(_)
JoinKeys(keys) ==
  IF keys = <<>> THEN EmptyStr
  ELSE IF Len(keys) = 1 THEN keys[1]
  ELSE keys[1] \o Str(",") \o JoinKeys(Tail(keys))

\* node.children[tag]: the own entry, else what the prototype answers, else undefined.
ChildAt(children, tag) ==
  IF \E i \in 1..Len(children) : children[i].key = tag
  THEN children[CHOOSE i \in 1..Len(children) : children[i].key = tag].node
  ELSE IF tag \in ProtoSegments THEN ObjectCtor
  ELSE JUndefined

NotFoundMessage(tag, children) ==
  JStr(Str("Resource not found: ") \o tag \o Str(". Did you mean ")
       \o JoinKeys(Keys(children)) \o Str("?"))

\* invoke (index.ts 78-87).  A function value has no children property.
invoke(node, tag) ==
  IF "children" \notin DOMAIN node
  THEN Throw(HttpError(404, JStr(Str("Illegal node parent. Missing children.")), JUndefined))
  ELSE LET fn == ChildAt(node.children, tag)
       IN IF fn = JUndefined
          THEN Throw(HttpError(404, NotFoundMessage(tag, node.children), JUndefined))
          ELSE Ok(fn)

\* getQueryResult (index.ts 89-95); index counts from 0 as in the source.
RECURSIVE getQueryResult(_, _, _)
getQueryResult(node, paths, index) ==
  IF index = Len(paths) THEN Ok(node)
  ELSE LET result == invoke(node, paths[index + 1])
       IN IF result.ok THEN getQueryResult(result.value, paths, index + 1)
          ELSE result

----------------------------------------------------------------------------
\* The error normalizer and the two response continuations

\* options (index.ts 140-145): the fixed header set.
options ==
  ("Access-Control-Allow-Origin" :> "*")
  @@ ("Access-Control-Allow-Headers" :> "Authorization, Content-Type, Auth-Provider")
  @@ ("Access-Control-Allow-Methods" :> "OPTIONS, GET, POST, PUT")
  @@ ("Content-Type" :> "application/json")

\* Spread with the precedence reversed: the fixed value wins on a collision.
SpreadBaseWins(base, over) ==
  [k \in DOMAIN base \cup DOMAIN over |-> IF k \in DOMAIN base THEN base[k] ELSE over[k]]

\* { ...base, ...over }: a key of over replaces the same key of base.
Spread(base, over) ==
  [k \in DOMAIN base \cup DOMAIN over |-> IF k \in DOMAIN over THEN over[k] ELSE base[k]]

\* if (e.statusCode) at index.ts 152: an own, truthy status code.
HasStatusCode(e) == "statusCode" \in DOMAIN e /\ e.statusCode # 0

\* getError without the statusCode branch: whatever is no HttpError becomes a 500.
getErrorWithoutSniff(error) ==
  IF Nullish(error)
  THEN Throw(Error("Cannot read properties of undefined (reading 'message')"))
  ELSE IF error.t = "HttpError" THEN Ok(error)
  ELSE Ok(HttpError(500, MessageProp(error), JUndefined))

\* getError (index.ts 147-160).  Reading e.statusCode of null or undefined raises a
\* TypeError at line 152, so the normalizer itself throws on those two values.
getError(error) ==
  IF Nullish(error)
  THEN Throw(Error("Cannot read properties of undefined (reading 'statusCode')"))
  ELSE IF error.t = "HttpError" THEN Ok(error)
  ELSE IF HasStatusCode(error)
  THEN Ok(HttpError(error.statusCode, MessageProp(error), BodyProp(error)))
  ELSE Ok(HttpError(500, MessageProp(error), JUndefined))

\* One invocation of the response callback.
Call(code, header, body) == [code |-> code, header |-> header, body |-> body]

\* What the callback may throw.
CallbackError == Error("callback failed")

\* The outcome of a block of code: the callback invocations it made, in order, and
\* whether it completed (Ok) or threw.
Outcome(invocations, result) == [calls |-> invocations, result |-> result]

\* callback(code, header, body), the callback throwing or returning.
Callback(code, header, body, cbThrows) ==
  Outcome(<<Call(code, header, body)>>,
          IF cbThrows THEN Throw(CallbackError) ELSE Ok(JUndefined))

\* The error body without the request.
ErrorBodyWithoutRequest(rq, httpError) ==
  JObj([message |-> JStr(httpError.message), body |-> httpError.body])

\* The body returnError builds (index.ts 169-173).
ErrorBody(rq, httpError) ==
  JObj([request |-> rq, message |-> JStr(httpError.message), body |-> httpError.body])

\* returnError (index.ts 167-174)
returnError(error, rq, cbThrows) ==
  LET httpError == getError(error)
  IN IF ~httpError.ok THEN Outcome(<<>>, httpError)
     ELSE Callback(httpError.value.statusCode, options,
                   ErrorBody(rq, httpError.value), cbThrows)

\* returnResponse (index.ts 175-177).  response.headers of undefined raises a TypeError.
returnResponse(response, cbThrows) ==
  IF Nullish(response)
  THEN Outcome(<<>>, Throw(Error("Cannot read properties of undefined (reading 'headers')")))
  ELSE Callback(200, Spread(options, response.headers), response.body, cbThrows)

----------------------------------------------------------------------------
\* Promises and the call of a verb handler

NoPromise == [state |-> "none", value |-> JUndefined]
Fulfilled(v) == [state |-> "fulfilled", value |-> v]
Rejected(e) == [state |-> "rejected", value |-> e]
Pending(v) == [state |-> "pending", value |-> v]

\* node.methods[verb]: the own handler, else what the prototype answers, else undefined.
MethodAt(methods, verb) ==
  IF verb \in DOMAIN methods THEN methods[verb]
  ELSE IF verb \in ProtoVerbs THEN ObjectCtor
  ELSE JUndefined

\* A call that resolves the accessor for every handler, whether it asks or not.
CallMethodEagerAuth(method, rq) ==
  IF "kind" \notin DOMAIN method
  THEN [result |-> Ok([state |-> "notpromise", value |-> JUndefined]), authInvoked |-> FALSE]
  ELSE IF method.kind = "sync"
  THEN [result |-> Throw(method.value), authInvoked |-> TRUE]
  ELSE IF method.kind = "async"
  THEN [result |-> Ok(IF method.outcome = "return" THEN Fulfilled(method.value)
                                                   ELSE Rejected(method.value)),
        authInvoked |-> TRUE]
  ELSE [result |-> Ok(Pending(JUndefined)), authInvoked |-> TRUE]

\* method(request, auth) at index.ts 183, up to its return: what the call yields
\* (a promise, a value that is no promise, or an exception) and whether the
\* accessor was invoked on the way.  authenticate (index.ts 196-203) is an async
\* function: it runs up to its first await, which evaluates auth().  Object(request)
\* returns the request itself.
CallMethod(method, rq) ==
  IF "kind" \notin DOMAIN method
  THEN [result |-> Ok([state |-> "notpromise", value |-> JUndefined]), authInvoked |-> FALSE]
  ELSE IF method.kind = "sync"
  THEN [result |-> Throw(method.value), authInvoked |-> FALSE]
  ELSE IF method.kind = "async"
  THEN [result |-> Ok(IF method.outcome = "return" THEN Fulfilled(method.value)
                                                   ELSE Rejected(method.value)),
        authInvoked |-> FALSE]
  ELSE [result |-> Ok(Pending(JUndefined)), authInvoked |-> TRUE]

----------------------------------------------------------------------------
\* The inputs: trees, requests, thrown values, accessor behaviours

Symbols == {"/", "?", "a", "constructor"}
PathStrings == UNION {[1..n -> Symbols] : n \in 0..MaxPathLen}
Verbs == {"GET", "POST", "OPTIONS", "constructor"}
Requests == [method : Verbs, path : PathStrings]

\* A thrown object literal that is no Error.
StatusObject(statusCode, message) ==
  [t |-> "object", statusCode |-> statusCode, message |-> Str(message)]
StatusObjectWithBody(statusCode, message, body) ==
  [t |-> "object", statusCode |-> statusCode, message |-> Str(message), body |-> body]

ThrownValues ==
  { JUndefined,
    HttpError(403, JStr(Str("forbidden")), JObj([detail |-> JStr(Str("no access"))])),
    HttpError(401, JUndefined, JUndefined),
    StatusObject(403, "denied"),
    StatusObject(0, "offline"),
    StatusObjectWithBody(502, "bad gateway", JStr(Str("upstream"))),
    [t |-> "object", statusCode |-> 409],
    Error("boom"),
    JStr(Str("oops")) }

\* The values a handler that is no async function throws before it returns.
SyncThrownValues ==
  { JUndefined, StatusObject(403, "denied"), Error("boom") }

Responses ==
  { Response(200, NoHeaders, JNull),
    Response(201, ("Content-Type" :> "text/plain") @@ ("X-Trace" :> "1"),
             JObj([id |-> JStr(Str("7"))])),
    JUndefined }

WrappedHandlers ==
  { HReturn(JStr(Str("profile"))), HThrow(Error("boom")), HThrow(StatusObject(403, "denied")) }

Handlers ==
  {AsyncReturn(r) : r \in Responses}
  \cup {AsyncThrow(e) : e \in ThrownValues}
  \cup {SyncThrow(e) : e \in SyncThrownValues}
  \cup {authenticate(h) : h \in WrappedHandlers}

\* /        directory             GET
\* /a       httpNode              GET -> handler
\* /a/a     json("leaf")          GET
\* /a/aa    httpPost(handler)     POST -> handler
TreeWith(handler) ==
  directory(<<Child(Str("a"),
                    httpNode([GET |-> handler],
                             <<Child(Str("a"), json(JStr(Str("leaf")), NoChildren)),
                               Child(<<"a", "a">>, httpPost(handler))>>))>>)

Trees == {TreeWith(h) : h \in Handlers} \cup {httpNode(<<>>, NoChildren)}

\* What the accessor's promise settles to.
AuthResolve(user) == [outcome |-> "resolve", value |-> user]
AuthReject(e) == [outcome |-> "reject", value |-> e]
NoAuth == [outcome |-> "none", value |-> JUndefined]
AuthOutcomes ==
  { AuthResolve(JStr(Str("alice"))),
    AuthReject(HttpError(401, JStr(Str("unauthorized")), JUndefined)),
    AuthReject(JUndefined) }

----------------------------------------------------------------------------
\* The state of one call handleRequest(root)(auth, request, callback)

VARIABLES
  root,        \* the tree handleRequest was built over
  request,     \* the request
  pc,          \* where the dispatch stands
  paths,       \* const paths (index.ts 179)
  node,        \* const node (index.ts 180)
  method,      \* const method (index.ts 181)
  caught,      \* what the catch block at index.ts 191 caught, if anything
  promise,     \* the promise the chain at index.ts 183-185 is waiting on
  calls,       \* the invocations of callback so far, in order
  authCalls,   \* how many times auth() was invoked
  authResult,  \* what the promise returned by auth() settles to
  hCalls,      \* the invocations of the handler wrapped by authenticate
  escaped      \* what left the pipeline uncaught (exception or unhandled rejection)

vars == <<root, request, pc, paths, node, method, caught, promise, calls,
          authCalls, authResult, hCalls, escaped>>

Init ==
  /\ root \in Trees
  /\ request \in Requests
  /\ pc = "start"
  /\ paths = <<>>
  /\ node = JUndefined
  /\ method = JUndefined
  /\ caught = <<>>
  /\ promise = NoPromise
  /\ calls = <<>>
  /\ authCalls = 0
  /\ authResult = NoAuth
  /\ hCalls = <<>>
  /\ escaped = <<>>

\* try { body } catch (error) { returnError(error) } (index.ts 178-193): the
\* invocations of both blocks, what was caught, and what returnError let escape.
TryCatch(body, rq, cbThrowsAgain) ==
  IF body.result.ok
  THEN [calls |-> body.calls, caught |-> <<>>, escaped |-> <<>>]
  ELSE LET handled == returnError(body.result.value, rq, cbThrowsAgain)
       IN [calls |-> body.calls \o handled.calls,
           caught |-> <<body.result.value>>,
           escaped |-> IF handled.result.ok THEN <<>> ELSE <<handled.result.value>>]

\* The try block of handleRequest (index.ts 179-190) up to the point where it
\* either is done or has called .then/.catch on the handler's promise: the
\* callback invocations, the result (a promise to wait on, undefined, or an
\* exception), the locals, and whether the handler invoked the accessor.
TryBlock(rt, rq, cbThrows) ==
  LET resolved == getQueryResult(rt, readParts(rq.path), 0)
      block(outcome, n, m, invoked) ==
        [calls |-> outcome.calls, result |-> outcome.result,
         node |-> n, method |-> m, authInvoked |-> invoked]
  IN IF ~resolved.ok THEN block(Outcome(<<>>, resolved), JUndefined, JUndefined, FALSE)
     ELSE IF "methods" \notin DOMAIN resolved.value
     THEN block(Outcome(<<>>, Throw(Error("Cannot read properties of undefined"))),
                resolved.value, JUndefined, FALSE)
     ELSE LET m == MethodAt(resolved.value.methods, rq.method)
          IN IF m # JUndefined
             THEN LET called == CallMethod(m, rq)
                      settled ==
                        IF ~called.result.ok THEN called.result
                        ELSE IF called.result.value.state = "notpromise"
                        THEN Throw(Error("method(...).then is not a function"))
                        ELSE called.result
                  IN block(Outcome(<<>>, settled), resolved.value, m, called.authInvoked)
             ELSE IF rq.method = "OPTIONS"
             THEN block(Callback(200, options, EmptyObject, cbThrows),
                        resolved.value, m, FALSE)
             ELSE block(Callback(404, options, EmptyObject, cbThrows),
                        resolved.value, m, FALSE)

\* handleRequest (index.ts 162-194), the synchronous part.  The callback returns
\* or throws at each invocation (cbThrows: at the first one of this step,
\* cbThrowsAgain: at the one returnError makes after the first threw), and the
\* accessor's promise, if the handler asked for one, is bound to settle one way.
HandleRequest ==
  /\ pc = "start"
  /\ LET quiet == TryBlock(root, request, FALSE)
         first == IF quiet.calls # <<>> \/ ~quiet.result.ok THEN BOOLEAN ELSE {FALSE}
     IN \E cbThrows \in first :
          \E cbThrowsAgain \in
               (IF quiet.calls # <<>> /\ cbThrows THEN BOOLEAN ELSE {cbThrows}) :
            \E settles \in (IF quiet.authInvoked THEN AuthOutcomes ELSE {authResult}) :
              LET body == IF quiet.calls # <<>> THEN TryBlock(root, request, cbThrows)
                          ELSE quiet
                  done == TryCatch(body, request, cbThrowsAgain)
                  waiting == body.result.ok /\ body.result.value # JUndefined
              IN /\ paths' = readParts(request.path)
                 /\ node' = body.node
                 /\ method' = body.method
                 /\ calls' = done.calls
                 /\ caught' = done.caught
                 /\ escaped' = done.escaped
                 /\ authCalls' = IF body.authInvoked THEN authCalls + 1 ELSE authCalls
                 /\ authResult' = settles
                 /\ promise' = IF waiting THEN body.result.value ELSE NoPromise
                 /\ pc' = IF ~waiting THEN "done"
                          ELSE IF body.result.value.state = "pending" THEN "awaitAuth"
                          ELSE "then"
  /\ UNCHANGED <<root, request, hCalls>>

\* authenticate resumes after "await auth()" (index.ts 200-201): on a user it calls
\* handler(user, request); a rejection, or a throw of the handler, rejects its promise.
AuthSettled ==
  /\ pc = "awaitAuth"
  /\ IF authResult.outcome = "resolve"
     THEN /\ hCalls' = Append(hCalls, [user |-> authResult.value, request |-> request])
          /\ IF method.h.outcome = "return"
             THEN promise' = Pending(method.h.value) /\ pc' = "awaitHandler"
             ELSE promise' = Rejected(method.h.value) /\ pc' = "then"
     ELSE /\ hCalls' = hCalls
          /\ promise' = Rejected(authResult.value)
          /\ pc' = "then"
  /\ UNCHANGED <<root, request, paths, node, method, caught, calls, authCalls,
                 authResult, escaped>>

\* authenticate resumes after "await handler(...)" and returns (index.ts 201-202).
HandlerAwaited ==
  /\ pc = "awaitHandler"
  /\ promise' = Fulfilled(Response(200, NoHeaders, promise.value))
  /\ pc' = "then"
  /\ UNCHANGED <<root, request, paths, node, method, caught, calls, authCalls,
                 authResult, hCalls, escaped>>

\* .then(returnResponse) (index.ts 184): runs returnResponse on fulfilment, passes
\* a rejection on; an exception in returnResponse rejects the chained promise.
ThenReaction ==
  /\ pc = "then"
  /\ \E cbThrows \in (IF promise.state = "fulfilled" /\ ~Nullish(promise.value)
                        THEN BOOLEAN ELSE {FALSE}) :
       IF promise.state = "fulfilled"
       THEN LET ran == returnResponse(promise.value, cbThrows)
            IN /\ calls' = calls \o ran.calls
               /\ promise' = IF ran.result.ok THEN Fulfilled(JUndefined)
                             ELSE Rejected(ran.result.value)
       ELSE /\ calls' = calls
            /\ promise' = promise
  /\ pc' = "catch"
  /\ UNCHANGED <<root, request, paths, node, method, caught, authCalls,
                 authResult, hCalls, escaped>>

\* .catch(returnError) (index.ts 185): runs returnError on rejection; an exception
\* in returnError is an unhandled rejection.
CatchReaction ==
  /\ pc = "catch"
  /\ \E cbThrows \in (IF promise.state = "rejected" /\ ~Nullish(promise.value)
                        THEN BOOLEAN ELSE {FALSE}) :
       IF promise.state = "rejected"
       THEN LET ran == returnError(promise.value, request, cbThrows)
            IN /\ calls' = calls \o ran.calls
               /\ escaped' = IF ran.result.ok THEN escaped ELSE <<ran.result.value>>
       ELSE /\ calls' = calls
            /\ escaped' = escaped
  /\ pc' = "done"
  /\ UNCHANGED <<root, request, paths, node, method, caught, promise, authCalls,
                 authResult, hCalls>>

Next ==
  \/ HandleRequest
  \/ AuthSettled
  \/ HandlerAwaited
  \/ ThenReaction
  \/ CatchReaction

Spec == Init /\ [][Next]_vars

----------------------------------------------------------------------------
\* Vocabulary of the properties

Dispatched == pc # "start"
Finished == pc = "done"

\* The request resolved to a node of the tree or to something else with methods.
HasNode == "methods" \in DOMAIN node

\* The verb handler found at the node is one the tree's author put there.
OwnHandler == "kind" \in DOMAIN method

\* The verb handler failed (threw, or returned a promise that rejected).
HandlerFailed ==
  /\ OwnHandler
  /\ \/ method.kind \in {"sync", "async"} /\ method.outcome = "throw"
     \/ method.kind = "authenticate" /\ authResult.outcome = "reject"
     \/ method.kind = "authenticate" /\ authResult.outcome = "resolve"
        /\ method.h.outcome = "throw"

\* What it threw or rejected with.
HandlerError ==
  IF method.kind \in {"sync", "async"} THEN method.value
  ELSE IF authResult.outcome = "reject" THEN authResult.value
  ELSE method.h.value

\* The verb handler's promise fulfilled with a Response.
HandlerResolved ==
  /\ OwnHandler
  /\ \/ method.kind = "async" /\ method.outcome = "return" /\ ~Nullish(method.value)
     \/ method.kind = "authenticate" /\ authResult.outcome = "resolve"
        /\ method.h.outcome = "return"

HandlerResponse ==
  IF method.kind = "async" THEN method.value
  ELSE Response(200, NoHeaders, method.h.value)

\* A body of the shape {request, message, body}.
IsErrorShape(body) ==
  /\ body.t = "object"
  /\ DOMAIN body.f = {"request", "message", "body"}

\* Iterative child lookup over the keys the children mappings own.
RECURSIVE Descend(_, _)
Descend(n, segs) ==
  IF segs = <<>> THEN [found |-> TRUE, node |-> n]
  ELSE LET own == {i \in 1..Len(n.children) : n.children[i].key = Head(segs)}
       IN IF own = {}
          THEN [found |-> FALSE, missing |-> Head(segs), siblings |-> Keys(n.children)]
          ELSE Descend(n.children[CHOOSE i \in own : TRUE].node, Tail(segs))

\* The segments joined by "/" again.
RECURSIVE JoinParts(_)
JoinParts(parts) ==
  IF Len(parts) = 1 THEN parts[1]
  ELSE parts[1] \o <<"/">> \o JoinParts(Tail(parts))

----------------------------------------------------------------------------
\* C1 -- The response callback is invoked exactly once per call of handleRequest:
\* when the dispatch has run to its end, on whatever path, the callback has been
\* invoked neither zero times nor more than once.
C1_CallbackExactlyOnce == Finished => Len(calls) = 1

\* C2 -- When the request resolves to a node whose methods mapping has no
\* handler for the verb, handleRequest itself, before it returns, invokes the
\* callback with the fixed headers and an empty body, status 200 for OPTIONS and
\* 404 for any other verb, and invokes no handler and no accessor.
C2_MissingHandler ==
  (Dispatched /\ HasNode /\ request.method \notin DOMAIN node.methods) =>
    /\ calls # <<>>
    /\ calls[1] = Call(IF request.method = "OPTIONS" THEN 200 ELSE 404,
                       options, EmptyObject)
    /\ promise = NoPromise
    /\ authCalls = 0
    /\ hCalls = <<>>

\* C3 -- When the handler resolves with a Response r, the callback receives
\* status 200 whatever r.statusCode is, the body r.body, and headers in which
\* every key of r.headers has the handler's value and every other fixed key its
\* fixed value.
C3_SuccessResponse ==
  (HandlerResolved /\ pc \in {"catch", "done"}) =>
    /\ calls # <<>>
    /\ calls[1].code = 200
    /\ calls[1].body = HandlerResponse.body
    /\ DOMAIN calls[1].header = DOMAIN options \cup DOMAIN HandlerResponse.headers
    /\ \A k \in DOMAIN HandlerResponse.headers :
         calls[1].header[k] = HandlerResponse.headers[k]
    /\ \A k \in DOMAIN options \ DOMAIN HandlerResponse.headers :
         calls[1].header[k] = options[k]

C3_Witness ==
  /\ Finished
  /\ HandlerResolved
  /\ HandlerResponse.statusCode = 201
  /\ Len(calls) = 1
  /\ calls[1].code = 200
  /\ calls[1].header["Content-Type"] = "text/plain"
  /\ calls[1].header["Access-Control-Allow-Origin"] = "*"

\* C4 -- The resolver returns the node iterative child lookup reaches when every
\* segment is a key of the children mapping at its level, and otherwise throws an
\* HttpError of status 404 whose message names the first segment that is no key
\* and lists the keys of that level.
C4_Resolver ==
  Dispatched =>
    LET expected == Descend(root, readParts(request.path))
    IN IF expected.found
       THEN node = expected.node
       ELSE /\ caught # <<>>
            /\ caught[1] = HttpError(404, NotFoundMessage(expected.missing,
                                     [i \in 1..Len(expected.siblings) |->
                                        Child(expected.siblings[i], JUndefined)]),
                                     JUndefined)

\* C5 -- Every error a handler throws or rejects with that carries a numeric
\* statusCode s reaches the callback with exactly status s, its message, and its
\* body field or null.
C5_StatusPreserved ==
  (Finished /\ HandlerFailed /\ ~Nullish(HandlerError)
     /\ "statusCode" \in DOMAIN HandlerError) =>
    /\ calls # <<>>
    /\ calls[1].code = HandlerError.statusCode
    /\ IsErrorShape(calls[1].body)
    /\ "message" \in DOMAIN HandlerError =>
         calls[1].body.f.message = JStr(HandlerError.message)
    /\ calls[1].body.f.body =
         (IF "body" \in DOMAIN HandlerError THEN HandlerError.body ELSE JNull)

\* C5, amended -- The status is preserved for every error whose statusCode is
\* truthy (not 0); the body's message is the error's message, the empty string
\* when it has none, and the body's body its body field or null.
C5_TruthyStatusPreserved ==
  (Finished /\ HandlerFailed /\ ~Nullish(HandlerError)
     /\ "statusCode" \in DOMAIN HandlerError
     /\ HandlerError.statusCode # 0) =>
    /\ calls # <<>>
    /\ calls[1].code = HandlerError.statusCode
    /\ calls[1].header = options
    /\ IsErrorShape(calls[1].body)
    /\ calls[1].body.f.request = request
    /\ calls[1].body.f.message =
         (IF "message" \in DOMAIN HandlerError THEN JStr(HandlerError.message)
          ELSE JStr(EmptyStr))
    /\ calls[1].body.f.body =
         (IF "body" \in DOMAIN HandlerError THEN HandlerError.body ELSE JNull)

C5_Witness ==
  /\ Finished
  /\ HandlerFailed
  /\ HandlerError = StatusObject(403, "denied")
  /\ Len(calls) = 1
  /\ calls[1].code = 403
  /\ calls[1].body.f.message = JStr(Str("denied"))

\* C6 -- Any value a handler throws or rejects with that is no HttpError and
\* carries no status code reaches the callback as status 500 with the fixed
\* headers and the body {request, message, body: null}, message being the thrown
\* message, or nothing when there is none.
C6_UnknownBecomes500 ==
  (Finished /\ HandlerFailed
     /\ (Nullish(HandlerError)
         \/ (HandlerError.t # "HttpError" /\ "statusCode" \notin DOMAIN HandlerError))) =>
    /\ calls # <<>>
    /\ calls[1].code = 500
    /\ calls[1].header = options
    /\ IsErrorShape(calls[1].body)
    /\ calls[1].body.f.request = request
    /\ calls[1].body.f.body = JNull
    /\ IF ~Nullish(HandlerError) /\ "message" \in DOMAIN HandlerError
       THEN calls[1].body.f.message = JStr(HandlerError.message)
       ELSE calls[1].body.f.message \in {JUndefined, JStr(EmptyStr)}

\* C7 -- For a handler authenticate(h): h is called only after the accessor was
\* invoked and resolved, with the resolved user and the request; when the
\* accessor rejects, h is never called and the callback receives the normalized
\* error response; when both succeed the callback receives 200 and h's value.
C7_Authenticate ==
  (OwnHandler /\ method.kind = "authenticate") =>
    /\ hCalls # <<>> =>
         /\ authCalls = 1
         /\ authResult.outcome = "resolve"
         /\ hCalls = <<[user |-> authResult.value, request |-> request]>>
    /\ authResult.outcome = "reject" => hCalls = <<>>
    /\ (Finished /\ authResult.outcome = "reject") =>
         /\ calls # <<>>
         /\ calls[1].header = options
         /\ IsErrorShape(calls[1].body)
         /\ calls[1].body.f.request = request
    /\ (Finished /\ authResult.outcome = "resolve" /\ method.h.outcome = "return") =>
         /\ calls # <<>>
         /\ calls[1] = Call(200, options, method.h.value)

\* C8 -- The pipeline never invokes the accessor: unless the handler the request
\* resolved to is one that asks for it, the accessor is invoked zero times and
\* no outcome of it exists that the response could depend on.
C8_AccessorLazy ==
  ~(OwnHandler /\ method.kind = "authenticate") =>
    /\ authCalls = 0
    /\ authResult = NoAuth
    /\ hCalls = <<>>

C8_Witness ==
  /\ Finished
  /\ OwnHandler
  /\ method.kind = "async"
  /\ Len(calls) = 1
  /\ authCalls = 0

\* C9 -- Every callback invocation with a status other than 200 carries exactly
\* the fixed headers and a body of the shape {request, message, body}.
C9_ErrorShape ==
  \A i \in 1..Len(calls) :
    calls[i].code # 200 =>
      /\ calls[i].header = options
      /\ IsErrorShape(calls[i].body)

\* C9, amended -- Every callback invocation with a status other than 200 carries
\* exactly the fixed headers; its body has the shape {request, message, body},
\* except the 404 handleRequest sends for a missing verb handler, whose body is
\* the empty object.
C9_ErrorShapeButMissingHandler ==
  \A i \in 1..Len(calls) :
    calls[i].code # 200 =>
      /\ calls[i].header = options
      /\ \/ /\ IsErrorShape(calls[i].body)
            /\ calls[i].body.f.request = request
         \/ /\ i = 1
            /\ calls[i] = Call(404, options, EmptyObject)
            /\ HasNode
            /\ method = JUndefined
            /\ request.method # "OPTIONS"

C9_Witness ==
  /\ Finished
  /\ Len(calls) = 2
  /\ calls[1] = Call(404, options, EmptyObject)
  /\ calls[2].code = 500
  /\ IsErrorShape(calls[2].body)

\* C10 -- The segments the resolver walks are those of the path before the "?":
\* a query suffix is stripped before resolving.
C10_QueryStripped ==
  Dispatched => paths = readParts(parsePath(request.path).path)

\* C10, amended -- handleRequest strips nothing but the first character: the
\* segments walked, joined by "/" again, are the whole rest of request.path, the
\* "?" and what follows it included.
C10_QueryKept ==
  (Dispatched /\ request.path # <<>>) =>
    JoinParts(paths) = DropFirstChar(request.path)

C10_Witness ==
  /\ Finished
  /\ request.path = <<"/", "a", "?", "a">>
  /\ request.method = "GET"
  /\ paths = << <<"a", "?", "a">> >>
  /\ Len(calls) = 1
  /\ calls[1].code = 404

====
